---- MODULE Spec2Model ----
(***************************************************************************)
(* Model of function_app.py: the GetMDRATE HTTP function (get_mdrate) and  *)
(* its helpers last_month_bounds_utc, fmt_cell, get_value, sanitize_guid,  *)
(* normalize_multichoice and utc_to_calgary_str.                           *)
(*                                                                         *)
(* Python values are records [t, s, n, b]: t is the type tag, s the text   *)
(* of a str, n the value of an int, b the value of a bool.  A text is a    *)
(* sequence of atoms; every character the code inspects (whitespace, tab,  *)
(* newline, ';', ',', braces, '-', ':', digits, hex letters, 'T', 'Z') is  *)
(* an atom of its own, and any other atom is an opaque run of characters   *)
(* that none of the helpers looks into.  A dict is a function from its     *)
(* keys to values.                                                         *)
(***************************************************************************)
EXTENDS Integers, Sequences, FiniteSets, TLC

(***************************************************************************)
(* Python values                                                           *)
(***************************************************************************)
None == [t |-> "none", s |-> <<>>, n |-> 0, b |-> FALSE]
Str(x) == [t |-> "str", s |-> x, n |-> 0, b |-> FALSE]
Num(k) == [t |-> "int", s |-> <<>>, n |-> k, b |-> FALSE]
Bool(x) == [t |-> "bool", s |-> <<>>, n |-> 0, b |-> x]
EmptyStr == Str(<<>>)

\* bool(v): None, "", 0 and False are falsy
Truthy(v) ==
    CASE v.t = "none" -> FALSE
      [] v.t = "str" -> v.s # <<>>
      [] v.t = "int" -> v.n # 0
      [] v.t = "bool" -> v.b

\* v == k for an int literal k (a bool compares as 0 or 1, a str never equals)
PyEqInt(v, k) ==
    \/ v.t = "int" /\ v.n = k
    \/ v.t = "bool" /\ (IF v.b THEN 1 ELSE 0) = k

\* d.get(k): the value under k, None when the key is missing
DictGet(d, k) == IF k \in DOMAIN d THEN d[k] ELSE None
\* d.get(k, default)
DictGetDefault(d, k, default) == IF k \in DOMAIN d THEN d[k] ELSE default
EmptyDict == [k \in {} |-> None]

(***************************************************************************)
(* Text                                                                    *)
(***************************************************************************)
DigitChars == <<"0", "1", "2", "3", "4", "5", "6", "7", "8", "9">>
Digits == {DigitChars[i] : i \in 1..10}
HexChars == Digits \cup {"a", "b", "c", "d", "e", "f", "A", "B", "C", "D", "E", "F"}
Whitespace == {" ", "\t", "\n", "\r"}
Digit(d) == DigitChars[d + 1]
DigitVal(c) == CHOOSE d \in 0..9 : DigitChars[d + 1] = c
Pad2(k) == <<Digit((k \div 10) % 10), Digit(k % 10)>>

RECURSIVE Decimal(_)
Decimal(k) ==
    IF k < 0 THEN <<"-">> \o Decimal(-k)
    ELSE IF k < 10 THEN <<Digit(k)>>
    ELSE Decimal(k \div 10) \o <<Digit(k % 10)>>

\* str(v)
PyStr(v) ==
    CASE v.t = "none" -> <<"None">>
      [] v.t = "str" -> v.s
      [] v.t = "int" -> Decimal(v.n)
      [] v.t = "bool" -> IF v.b THEN <<"True">> ELSE <<"False">>

RECURSIVE LStrip(_, _)
LStrip(s, chars) ==
    IF s # <<>> /\ Head(s) \in chars THEN LStrip(Tail(s), chars) ELSE s
RECURSIVE RStrip(_, _)
RStrip(s, chars) ==
    IF s # <<>> /\ s[Len(s)] \in chars THEN RStrip(SubSeq(s, 1, Len(s) - 1), chars) ELSE s
\* s.strip() and s.strip(chars)
StripChars(s, chars) == RStrip(LStrip(s, chars), chars)
Strip(s) == StripChars(s, Whitespace)

\* s.split(sep) for a one-character separator: always at least one part
RECURSIVE Split(_, _)
Split(s, sep) ==
    IF \E i \in 1..Len(s) : s[i] = sep
    THEN LET i == CHOOSE j \in 1..Len(s) : s[j] = sep /\ \A k \in 1..(j - 1) : s[k] # sep
         IN <<SubSeq(s, 1, i - 1)>> \o Split(SubSeq(s, i + 1, Len(s)), sep)
    ELSE <<s>>

\* sep.join(parts)
RECURSIVE Join(_, _)
Join(parts, sep) ==
    IF parts = <<>> THEN <<>>
    ELSE IF Len(parts) = 1 THEN parts[1]
    ELSE parts[1] \o sep \o Join(Tail(parts), sep)

\* "".join(parts)
Concat(parts) == Join(parts, <<>>)

\* s.replace(c, by) for a one-character c: every occurrence
RECURSIVE Replace(_, _, _)
Replace(s, c, by) ==
    IF s = <<>> THEN <<>>
    ELSE (IF Head(s) = c THEN by ELSE <<Head(s)>>) \o Replace(Tail(s), c, by)

\* [p for p in parts if p]
RECURSIVE DropEmpty(_)
DropEmpty(parts) ==
    IF parts = <<>> THEN <<>>
    ELSE (IF Head(parts) # <<>> THEN <<Head(parts)>> ELSE <<>>) \o DropEmpty(Tail(parts))

\* [p.strip() for p in parts]
StripEach(parts) == [i \in 1..Len(parts) |-> Strip(parts[i])]

(***************************************************************************)
(* datetime: [year, month, day, hour, minute, second, microsecond]         *)
(***************************************************************************)
IsLeap(y) == (y % 4 = 0 /\ y % 100 # 0) \/ y % 400 = 0
DaysInMonth(y, m) ==
    IF m = 2 THEN (IF IsLeap(y) THEN 29 ELSE 28)
    ELSE IF m \in {4, 6, 9, 11} THEN 30 ELSE 31

\* days since 1970-01-01 of a proleptic Gregorian date
DaysFromCivil(y, m, d) ==
    LET yy == IF m <= 2 THEN y - 1 ELSE y
        era == yy \div 400
        yoe == yy - era * 400
        mp == (m + 9) % 12
        doy == (153 * mp + 2) \div 5 + d - 1
        doe == yoe * 365 + yoe \div 4 - yoe \div 100 + doy
    IN era * 146097 + doe - 719468

CivilFromDays(z) ==
    LET zz == z + 719468
        era == zz \div 146097
        doe == zz - era * 146097
        yoe == (doe - doe \div 1460 + doe \div 36524 - doe \div 146096) \div 365
        doy == doe - (365 * yoe + yoe \div 4 - yoe \div 100)
        mp == (5 * doy + 2) \div 153
        d == doy - (153 * mp + 2) \div 5 + 1
        m == IF mp < 10 THEN mp + 3 ELSE mp - 9
        y == yoe + era * 400 + (IF m <= 2 THEN 1 ELSE 0)
    IN [year |-> y, month |-> m, day |-> d]

\* 0 = Sunday
Weekday(days) == (days + 4) % 7
\* the day number of the k-th Sunday of month m of year y
NthSunday(y, m, k) ==
    LET d0 == DaysFromCivil(y, m, 1)
    IN d0 + ((7 - Weekday(d0)) % 7) + 7 * (k - 1)

\* minutes since the epoch of a datetime read as UTC
EpochMinutes(dt) == DaysFromCivil(dt.year, dt.month, dt.day) * 1440 + dt.hour * 60 + dt.minute
FromEpochMinutes(mins, second) ==
    LET days == mins \div 1440
        rest == mins % 1440
        c == CivilFromDays(days)
    IN [year |-> c.year, month |-> c.month, day |-> c.day,
        hour |-> rest \div 60, minute |-> rest % 60, second |-> second, microsecond |-> 0]

\* datetime.fromisoformat, for the forms YYYY-MM-DD, YYYY-MM-DD(T| )HH:MM:SS and
\* the latter followed by (+|-)HH:MM; any other text does not parse
Num2(s, i) == DigitVal(s[i]) * 10 + DigitVal(s[i + 1])
Num4(s, i) == Num2(s, i) * 100 + Num2(s, i + 2)
AllDigits(s, i, j) == \A k \in i..j : s[k] \in Digits
DateOk(s) ==
    /\ AllDigits(s, 1, 4) /\ s[5] = "-" /\ AllDigits(s, 6, 7) /\ s[8] = "-" /\ AllDigits(s, 9, 10)
    /\ Num4(s, 1) >= 1
    /\ Num2(s, 6) \in 1..12
    /\ Num2(s, 9) \in 1..DaysInMonth(Num4(s, 1), Num2(s, 6))
TimeOk(s) ==
    /\ s[11] \in {"T", " "}
    /\ AllDigits(s, 12, 13) /\ s[14] = ":" /\ AllDigits(s, 15, 16) /\ s[17] = ":" /\ AllDigits(s, 18, 19)
    /\ Num2(s, 12) < 24 /\ Num2(s, 15) < 60 /\ Num2(s, 18) < 60
OffsetOk(s) ==
    /\ s[20] \in {"+", "-"}
    /\ AllDigits(s, 21, 22) /\ s[23] = ":" /\ AllDigits(s, 24, 25)
    /\ Num2(s, 21) < 24 /\ Num2(s, 24) < 60
IsoParses(s) ==
    \/ Len(s) = 10 /\ DateOk(s)
    \/ Len(s) = 19 /\ DateOk(s) /\ TimeOk(s)
    \/ Len(s) = 25 /\ DateOk(s) /\ TimeOk(s) /\ OffsetOk(s)
\* the parsed value: the fields, whether it carries a zone, its UTC offset in minutes
fromisoformat(s) ==
    [dt |-> [year |-> Num4(s, 1), month |-> Num2(s, 6), day |-> Num2(s, 9),
             hour |-> IF Len(s) >= 19 THEN Num2(s, 12) ELSE 0,
             minute |-> IF Len(s) >= 19 THEN Num2(s, 15) ELSE 0,
             second |-> IF Len(s) >= 19 THEN Num2(s, 18) ELSE 0,
             microsecond |-> 0],
     aware |-> Len(s) = 25,
     offset |-> IF Len(s) = 25
                THEN (IF s[20] = "-" THEN -1 ELSE 1) * (Num2(s, 21) * 60 + Num2(s, 24))
                ELSE 0]

(***************************************************************************)
(* _load_calgary_tz: CALGARY_TZ is America/Edmonton from zoneinfo or       *)
(* dateutil ("zone"), or the fixed UTC-7 offset without DST ("fixed").     *)
(***************************************************************************)
TzKinds == {"zone", "fixed"}
\* America/Edmonton: daylight time from the second Sunday of March, 09:00 UTC, to
\* the first Sunday of November, 08:00 UTC
InDst(utcMinutes) ==
    LET y == CivilFromDays(utcMinutes \div 1440).year
    IN /\ utcMinutes >= NthSunday(y, 3, 2) * 1440 + 9 * 60
       /\ utcMinutes < NthSunday(y, 11, 1) * 1440 + 8 * 60
UtcOffsetMinutes(tz, utcMinutes) ==
    IF tz = "zone" /\ InDst(utcMinutes) THEN -6 * 60 ELSE -7 * 60

(***************************************************************************)
(* Helpers                                                                 *)
(***************************************************************************)
\* strftime("%Y-%m-%dT%H:%M:%SZ")
StrftimeZ(dt) ==
    Decimal(dt.year) \o <<"-">> \o Pad2(dt.month) \o <<"-">> \o Pad2(dt.day) \o <<"T">>
        \o Pad2(dt.hour) \o <<":">> \o Pad2(dt.minute) \o <<":">> \o Pad2(dt.second) \o <<"Z">>

\* the bug of stepping the month back without the year
last_month_bounds_utc_keeps_year(now_utc) ==
    LET this_month_start ==
            [now_utc EXCEPT !.day = 1, !.hour = 0, !.minute = 0, !.second = 0, !.microsecond = 0]
        last_start ==
            [this_month_start EXCEPT
                !.month = IF this_month_start.month = 1 THEN 12 ELSE this_month_start.month - 1]
    IN <<StrftimeZ(last_start), StrftimeZ(this_month_start)>>

last_month_bounds_utc(now_utc) ==
    LET this_month_start ==
            [now_utc EXCEPT !.day = 1, !.hour = 0, !.minute = 0, !.second = 0, !.microsecond = 0]
        last_start ==
            IF this_month_start.month = 1
            THEN [this_month_start EXCEPT !.year = this_month_start.year - 1, !.month = 12]
            ELSE [this_month_start EXCEPT !.month = this_month_start.month - 1]
        last_end == this_month_start
    IN <<StrftimeZ(last_start), StrftimeZ(last_end)>>

NA == <<"NA">>
\* the bug of testing for None alone
fmt_cell_none_only(val) ==
    IF val.t = "none" THEN NA
    ELSE IF val.t = "bool" THEN (IF val.b THEN <<"Yes">> ELSE <<"No">>)
    ELSE PyStr(val)

fmt_cell(val) ==
    IF val.t = "none" \/ val = EmptyStr THEN NA
    ELSE IF val.t = "bool" THEN (IF val.b THEN <<"Yes">> ELSE <<"No">>)
    ELSE IF val.t = "int" THEN PyStr(val)
    ELSE PyStr(val)

FmtKey(field) == field \o "@OData.Community.Display.V1.FormattedValue"
\* the bug of taking the annotation whenever its key exists
get_value_any_annotation(obj, field) ==
    IF DOMAIN obj = {} THEN EmptyStr
    ELSE IF FmtKey(field) \in DOMAIN obj THEN obj[FmtKey(field)]
    ELSE DictGetDefault(obj, field, EmptyStr)

get_value(obj, field) ==
    IF DOMAIN obj = {} THEN EmptyStr
    ELSE IF FmtKey(field) \in DOMAIN obj /\ obj[FmtKey(field)] \notin {None, EmptyStr}
    THEN obj[FmtKey(field)]
    ELSE DictGetDefault(obj, field, EmptyStr)

\* 8-4-4-4-12 hexadecimal digits
GuidLen == 36
GuidDashes == {9, 14, 19, 24}
IsGuidAt(s, i) ==
    /\ i + GuidLen - 1 <= Len(s)
    /\ \A k \in 1..GuidLen :
          IF k \in GuidDashes THEN s[i + k - 1] = "-" ELSE s[i + k - 1] \in HexChars
\* re.search: the leftmost match, <<>> for no match
GuidSearch(s) ==
    IF \E i \in 1..Len(s) : IsGuidAt(s, i)
    THEN LET i == CHOOSE j \in 1..Len(s) : IsGuidAt(s, j) /\ \A k \in 1..(j - 1) : ~IsGuidAt(s, k)
         IN SubSeq(s, i, i + GuidLen - 1)
    ELSE <<>>
\* the bug of not stripping before the search
sanitize_guid_unstripped(g) ==
    IF ~Truthy(g) THEN <<>>
    ELSE LET m == GuidSearch(PyStr(g)) IN IF m # <<>> THEN m ELSE PyStr(g)

sanitize_guid(g) ==
    IF ~Truthy(g) THEN <<>>
    ELSE LET s == Strip(StripChars(Strip(PyStr(g)), {"{", "}"}))
             m == GuidSearch(s)
         IN IF m # <<>> THEN m ELSE s

normalize_multichoice(value) ==
    IF ~Truthy(value) THEN value
    ELSE Str(Join(DropEmpty(StripEach(Split(PyStr(value), ";"))), <<",", " ">>))

\* strftime("%m/%d/%Y %I:%M %p")
StrftimeLocal(dt) ==
    Pad2(dt.month) \o <<"/">> \o Pad2(dt.day) \o <<"/">> \o Decimal(dt.year) \o <<" ">>
        \o Pad2(IF dt.hour % 12 = 0 THEN 12 ELSE dt.hour % 12) \o <<":">> \o Pad2(dt.minute)
        \o <<" ">> \o (IF dt.hour < 12 THEN <<"AM">> ELSE <<"PM">>)

\* dt_utc.astimezone(CALGARY_TZ) of a parsed value
astimezone(parsed, tz) ==
    LET utcMinutes == EpochMinutes(parsed.dt) - parsed.offset
    IN FromEpochMinutes(utcMinutes + UtcOffsetMinutes(tz, utcMinutes), parsed.dt.second)

\* a value decoded from JSON is None, a str, a number or a bool, never a datetime
utc_to_calgary_str(dt_val, tz) ==
    IF ~Truthy(dt_val) THEN NA
    ELSE IF dt_val.t = "str"
    THEN LET s == Strip(dt_val.s)
             iso == IF s # <<>> /\ s[Len(s)] = "Z"
                    THEN Replace(s, "Z", <<"+", "0", "0", ":", "0", "0">>)
                    ELSE s
         IN IF IsoParses(iso) THEN StrftimeLocal(astimezone(fromisoformat(iso), tz)) ELSE s
    ELSE PyStr(dt_val)

(***************************************************************************)
(* get_mdrate: the pieces of the handler                                   *)
(***************************************************************************)
MEDICAL == 121570000
MEDICAL_OR_SOCIAL == 121570001
HTTP_OK == 200
HTTP_ERROR == 500

Settings == <<"TENANT_ID", "CLIENT_ID", "CLIENT_SECRET", "DATAVERSE_URL">>
\* os.environ[...] in order: the first missing key raises KeyError
FirstMissing(env) ==
    LET i == CHOOSE j \in 1..Len(Settings) :
                 Settings[j] \notin env /\ \A k \in 1..(j - 1) : Settings[k] \in env
    IN Settings[i]

\* func.HttpResponse(text, status_code=...) and func.HttpResponse(json, mimetype=...)
NoResponse ==
    [kind |-> "none", status_code |-> 0, mimetype |-> "", text |-> <<>>, json |-> EmptyDict]
TextResponse(text, status_code) ==
    [kind |-> "http", status_code |-> status_code, mimetype |-> "text/plain",
     text |-> text, json |-> EmptyDict]
JsonResponse(obj) ==
    [kind |-> "http", status_code |-> HTTP_OK, mimetype |-> "application/json",
     text |-> <<>>, json |-> obj]
\* an exception that leaves get_mdrate: the handler returns no response
Raised ==
    [kind |-> "raised", status_code |-> 0, mimetype |-> "", text |-> <<>>, json |-> EmptyDict]

is_med(rec) ==
    LET detoxtype == DictGet(rec, "cp_detoxtype")
        med_disc == DictGet(rec, "cp_medicaldischargedate")
    IN PyEqInt(detoxtype, MEDICAL) \/ (PyEqInt(detoxtype, MEDICAL_OR_SOCIAL) /\ med_disc # None)
\* the earlier rule: social whenever the type is MEDICAL_OR_SOCIAL
is_soc_first_variant(rec) == PyEqInt(DictGet(rec, "cp_detoxtype"), MEDICAL_OR_SOCIAL)

is_soc(rec) ==
    LET detoxtype == DictGet(rec, "cp_detoxtype")
        med_disc == DictGet(rec, "cp_medicaldischargedate")
    IN PyEqInt(detoxtype, MEDICAL_OR_SOCIAL) /\ med_disc = None

\* rec.get("cp_Client") or {}: the expanded contact is a dict when present
Contact(rec) == IF "cp_Client" \in DOMAIN rec THEN rec["cp_Client"] ELSE EmptyDict

\* the outcome of fetch_substance_name under one reply of the substances query:
\* whether a request was sent, whether requests.get raised, the value returned
fetch_substance_name(substance_guid, reply) ==
    LET guid == sanitize_guid(substance_guid)
    IN IF guid = <<>> THEN [requested |-> FALSE, raised |-> FALSE, value |-> EmptyStr]
       ELSE IF reply.exc THEN [requested |-> TRUE, raised |-> TRUE, value |-> EmptyStr]
       ELSE [requested |-> TRUE, raised |-> FALSE,
             value |->
                IF reply.status_code = HTTP_OK
                THEN IF reply.parses
                     THEN LET items == DictGetDefault(reply.body, "value", <<>>)
                          IN IF items # <<>>
                             THEN DictGetDefault(items[1], "cp_nameofsubstance", EmptyStr)
                             ELSE EmptyStr
                     ELSE EmptyStr
                ELSE EmptyStr]

\* vals: the 18 values of a row, in column order
RowValues(rec, opioid_name, tz) ==
    LET contact == Contact(rec)
        contributing == normalize_multichoice(get_value(rec, "cp_contributingfactors"))
        post_referrals == normalize_multichoice(get_value(rec, "cp_postdischargereferral"))
        srd_raw == DictGet(rec, "cp_servicerequestdate")
        adm_raw == DictGet(rec, "cp_admissiondate")
        disc_raw == DictGet(rec, "cp_actualdischargedate")
    IN << get_value(contact, "cp_ahcnumber"),
          get_value(contact, "cp_clientoutofprovince"),
          get_value(rec, "cp_pseudoname"),
          Str(utc_to_calgary_str(srd_raw, tz)),
          Str(utc_to_calgary_str(adm_raw, tz)),
          Str(utc_to_calgary_str(disc_raw, tz)),
          get_value(contact, "address1_postalcode"),
          get_value(contact, "cp_gender"),
          get_value(contact, "cp_age"),
          get_value(rec, "cp_primarysubstanceused"),
          get_value(rec, "cp_othersubstances"),
          contributing,
          get_value(rec, "cp_incomesource"),
          opioid_name,
          get_value(rec, "cp_reasonfordischargemdrate"),
          get_value(rec, "cp_reasonforhospitaladmissionmdrate"),
          post_referrals,
          get_value(contact, "cp_mrpnumber") >>

\* the cells of a row: fmt_cell(v) for v in vals
RowCells(rec, opioid_name, tz) ==
    LET vals == RowValues(rec, opioid_name, tz)
    IN [i \in 1..Len(vals) |-> fmt_cell(vals[i])]

Columns == 18
RowEnd == <<"\n", " ">>
\* the bug of ending a row with the newline alone
Line_newline_only(rec, opioid_name, tz) == Join(RowCells(rec, opioid_name, tz), <<"\t">>) \o <<"\n">>

\* "\t".join(...) + "\n "
Line(rec, opioid_name, tz) == Join(RowCells(rec, opioid_name, tz), <<"\t">>) \o RowEnd

ColumnLabels ==
    << <<"Personal Health Number">>, <<"Out of Province">>, <<"Pseudo Name">>,
       <<"Service Request Date">>, <<"Admission Date">>, <<"Discharge Date">>,
       <<"Postal Code">>, <<"Gender">>, <<"Age in Years">>, <<"Primary Substance">>,
       <<"Other Substances">>, <<"Contributing Factors">>, <<"Income Source">>,
       <<"Opioid Agonist Therapy">>, <<"Reason for Discharge">>,
       <<"Reason for Hospital Admission">>, <<"Post-discharge Referrals">>,
       <<"MRP Client ID (for sites using MRP)">> >>
header == Join(ColumnLabels, <<"\t">>)

\* the bug of an empty body for an empty bucket
Report_empty_without_rows(rows) == IF rows = <<>> THEN <<>> ELSE header \o RowEnd \o Concat(rows)

\* header + "\n " + ("".join(rows) if rows else "")
Report(rows) == header \o RowEnd \o (IF rows # <<>> THEN Concat(rows) ELSE <<>>)

(***************************************************************************)
(* The environment: what the settings, the identity provider and the data  *)
(* platform can answer.                                                    *)
(***************************************************************************)
MaxRecords == 2

GuidText ==
    <<"3", "f", "a", "8", "5", "f", "6", "4", "-", "5", "7", "1", "7", "-", "4", "5", "6", "2", "-",
      "B", "3", "F", "C", "-", "2", "c", "9", "6", "3", "f", "6", "6", "a", "f", "a", "6">>
IsoWinter ==
    <<"2", "0", "2", "4", "-", "0", "1", "-", "0", "1", "T", "0", "3", ":", "3", "0", ":", "0", "0", "Z">>
IsoSummer ==
    <<"2", "0", "2", "4", "-", "0", "7", "-", "1", "5", "T", "1", "8", ":", "0", "5", ":", "0", "9", "Z">>
IsoDstStart ==
    <<"2", "0", "2", "4", "-", "0", "3", "-", "1", "0", "T", "0", "9", ":", "0", "0", ":", "0", "0", "Z">>
IsoNaive ==
    <<"2", "0", "2", "4", "-", "1", "1", "-", "0", "3", " ", "0", "7", ":", "5", "9", ":", "0", "0">>
IsoOffset ==
    <<"2", "0", "2", "4", "-", "1", "2", "-", "3", "1", "T", "2", "3", ":", "0", "0", ":", "0", "0",
      "-", "0", "8", ":", "0", "0">>
IsoDateOnly == <<"2", "0", "2", "4", "-", "0", "2", "-", "2", "9">>

DetoxA == "cp_detoxtype" :> Num(MEDICAL)
DetoxB == "cp_detoxtype" :> Num(MEDICAL_OR_SOCIAL)
DetoxOther == "cp_detoxtype" :> Num(MEDICAL_OR_SOCIAL + 1)
DetoxNull == "cp_detoxtype" :> None
DetoxMissing == EmptyDict
MedSet == "cp_medicaldischargedate" :> Str(IsoWinter)
MedNull == "cp_medicaldischargedate" :> None
MedMissing == EmptyDict
RefNull == "_cp_opioidagonisttherapy_value" :> None
RefMissing == EmptyDict
RefEmpty == "_cp_opioidagonisttherapy_value" :> EmptyStr
RefBlank == "_cp_opioidagonisttherapy_value" :> Str(<<" ", "{", " ", "}">>)
RefGuid == "_cp_opioidagonisttherapy_value" :> Str(GuidText)
RefBraced == "_cp_opioidagonisttherapy_value" :> Str(<<"{">> \o GuidText \o <<"}", " ">>)
RefMalformed == "_cp_opioidagonisttherapy_value" :> Str(<<"n", "/", "a">>)

\* every field set, option sets with their formatted annotations
Full(name) ==
    ("cp_pseudoname" :> Str(<<name>>))
    @@ ("cp_servicerequestdate" :> Str(IsoWinter))
    @@ ("cp_admissiondate" :> Str(IsoDstStart))
    @@ ("cp_actualdischargedate" :> Str(IsoSummer))
    @@ ("cp_primarysubstanceused" :> Num(3))
    @@ (FmtKey("cp_primarysubstanceused") :> Str(<<"Alcohol">>))
    @@ ("cp_othersubstances" :> Str(<<"Cannabis">>))
    @@ ("cp_contributingfactors" :> Str(<<"1", ",", "2">>))
    @@ (FmtKey("cp_contributingfactors") :> Str(<<"Housing", ";", " ", "Work", ";", " ", " ", "Family", " ">>))
    @@ ("cp_incomesource" :> Num(7))
    @@ (FmtKey("cp_incomesource") :> Str(<<"Employment">>))
    @@ ("cp_reasonfordischargemdrate" :> Num(1))
    @@ (FmtKey("cp_reasonfordischargemdrate") :> Str(<<"Completed">>))
    @@ ("cp_reasonforhospitaladmissionmdrate" :> None)
    @@ ("cp_postdischargereferral" :> Str(<<"4">>))
    @@ (FmtKey("cp_postdischargereferral") :> Str(<<"Shelter">>))
    @@ ("cp_Client" :>
           (("cp_ahcnumber" :> Str(<<"1", "2", "3", "4", "5">>))
            @@ ("cp_clientoutofprovince" :> Bool(FALSE))
            @@ (FmtKey("cp_clientoutofprovince") :> Str(<<"No">>))
            @@ ("address1_postalcode" :> Str(<<"T2P", " ", "1J9">>))
            @@ ("cp_gender" :> Num(2))
            @@ (FmtKey("cp_gender") :> Str(<<"Female">>))
            @@ ("cp_age" :> Num(42))
            @@ ("cp_mrpnumber" :> Str(<<"MRP", "-", "7">>))))

\* no contact, null, missing and blank fields
Sparse(name) ==
    ("cp_pseudoname" :> Str(<<name>>))
    @@ ("cp_servicerequestdate" :> None)
    @@ ("cp_admissiondate" :> Str(<<" ", " ">>))
    @@ ("cp_actualdischargedate" :> Str(<<"s", "o", "o", "n">>))
    @@ ("cp_primarysubstanceused" :> None)
    @@ (FmtKey("cp_primarysubstanceused") :> EmptyStr)
    @@ ("cp_othersubstances" :> EmptyStr)
    @@ ("cp_contributingfactors" :> None)
    @@ (FmtKey("cp_contributingfactors") :> Str(<<";", " ", ";">>))
    @@ ("cp_reasonfordischargemdrate" :> None)
    @@ (FmtKey("cp_reasonfordischargemdrate") :> None)

\* raw values without annotations: booleans, numbers, zero
Mixed(name) ==
    ("cp_pseudoname" :> Str(<<name>>))
    @@ ("cp_servicerequestdate" :> Str(IsoNaive))
    @@ ("cp_admissiondate" :> Str(IsoOffset))
    @@ ("cp_actualdischargedate" :> Str(IsoDateOnly))
    @@ ("cp_primarysubstanceused" :> Num(0))
    @@ ("cp_othersubstances" :> Bool(TRUE))
    @@ ("cp_contributingfactors" :> Str(<<"Grief">>))
    @@ ("cp_incomesource" :> Num(-5))
    @@ ("cp_postdischargereferral" :> EmptyStr)
    @@ ("cp_Client" :>
           (("cp_ahcnumber" :> None)
            @@ ("cp_clientoutofprovince" :> Bool(TRUE))
            @@ ("cp_gender" :> Bool(FALSE))
            @@ ("cp_age" :> Num(0))
            @@ (FmtKey("cp_age") :> EmptyStr)))

SampleRecords ==
    { DetoxA @@ MedNull @@ RefNull @@ Full("P01"),
      DetoxA @@ MedSet @@ RefBraced @@ Sparse("P02"),
      DetoxA @@ MedMissing @@ RefBlank @@ Mixed("P03"),
      DetoxB @@ MedSet @@ RefGuid @@ Full("P04"),
      DetoxB @@ MedSet @@ RefEmpty @@ Sparse("P05"),
      DetoxB @@ MedMissing @@ RefMissing @@ Full("P06"),
      DetoxB @@ MedNull @@ RefMalformed @@ Sparse("P07"),
      DetoxOther @@ MedSet @@ RefGuid @@ Full("P08"),
      DetoxMissing @@ MedNull @@ RefBraced @@ Mixed("P09"),
      DetoxNull @@ MedSet @@ RefGuid @@ Sparse("P10") }

AdmissionLists == UNION {[1..k -> SampleRecords] : k \in 0..MaxRecords}

\* The answers carry a label, kind, that says what the environment did; the code
\* never reads it.
\* acquire_token_for_client: the dict it returns, or it raises
TokenOutcomes ==
    { [kind |-> "ok", raised |-> FALSE, result |-> ("access_token" :> Str(<<"eyJ0">>))],
      [kind |-> "refused", raised |-> FALSE,
       result |-> ("error" :> Str(<<"invalid_client">>))
                  @@ ("error_description" :> Str(<<"AADSTS7000215">>))],
      [kind |-> "refused", raised |-> FALSE, result |-> ("error" :> Str(<<"invalid_client">>))],
      [kind |-> "notoken", raised |-> FALSE, result |-> EmptyDict],
      [kind |-> "raised", raised |-> TRUE, result |-> EmptyDict] }

\* requests.get on the admissions collection
AdmissionsReplies ==
    { [kind |-> "transport", exc |-> TRUE, status_code |-> 0, text |-> <<>>, parses |-> FALSE,
       body |-> EmptyDict],
      [kind |-> "status", exc |-> FALSE, status_code |-> 401, text |-> <<"Unauthorized">>,
       parses |-> TRUE, body |-> EmptyDict],
      [kind |-> "status", exc |-> FALSE, status_code |-> 204, text |-> <<>>, parses |-> FALSE,
       body |-> EmptyDict],
      [kind |-> "parse", exc |-> FALSE, status_code |-> HTTP_OK, text |-> <<"<html>">>,
       parses |-> FALSE, body |-> EmptyDict],
      [kind |-> "ok", exc |-> FALSE, status_code |-> HTTP_OK, text |-> <<"{", "}">>,
       parses |-> TRUE, body |-> EmptyDict] }
    \cup { [kind |-> "ok", exc |-> FALSE, status_code |-> HTTP_OK, text |-> <<>>, parses |-> TRUE,
            body |-> ("value" :> list)] : list \in AdmissionLists }

\* requests.get on the substances collection
SubstanceReplies ==
    { [kind |-> "transport", exc |-> TRUE, status_code |-> 0, parses |-> FALSE, body |-> EmptyDict],
      [kind |-> "status", exc |-> FALSE, status_code |-> 400, parses |-> TRUE, body |-> EmptyDict],
      [kind |-> "parse", exc |-> FALSE, status_code |-> HTTP_OK, parses |-> FALSE, body |-> EmptyDict],
      [kind |-> "empty", exc |-> FALSE, status_code |-> HTTP_OK, parses |-> TRUE,
       body |-> ("value" :> <<>>)],
      [kind |-> "novalue", exc |-> FALSE, status_code |-> HTTP_OK, parses |-> TRUE,
       body |-> EmptyDict],
      [kind |-> "found", exc |-> FALSE, status_code |-> HTTP_OK, parses |-> TRUE,
       body |-> ("value" :> << ("cp_nameofsubstance" :> Str(<<"Methadone">>)) >>)],
      [kind |-> "noname", exc |-> FALSE, status_code |-> HTTP_OK, parses |-> TRUE,
       body |-> ("value" :> << ("cp_nameofsubstance" :> None) >>)] }

\* datetime.now(timezone.utc) as the handler may read it
ClockSamples ==
    { [year |-> 2024, month |-> 1, day |-> 31, hour |-> 23, minute |-> 59, second |-> 59,
       microsecond |-> 999999],
      [year |-> 2024, month |-> 3, day |-> 1, hour |-> 0, minute |-> 0, second |-> 0,
       microsecond |-> 0] }

(***************************************************************************)
(* One invocation of get_mdrate                                            *)
(***************************************************************************)
VARIABLES
    CALGARY_TZ,     \* the module-level zone, loaded at import
    pc,             \* where the invocation stands
    calls,          \* the outbound requests sent so far, in order
    window,         \* (start_z, end_z) once computed
    admissions,     \* the records of the admissions response
    idx,            \* the record the loop is at (1-based)
    medical_rows,
    social_rows,
    response,       \* what the invocation returned
    seen,           \* what the environment answered so far (its labels)
    arg,            \* the input of a helper applied on its own
    result          \* its result

hvars == <<CALGARY_TZ, pc, calls, window, admissions, idx, medical_rows, social_rows,
           response, seen>>
fvars == <<arg, result>>
vars == <<hvars, fvars>>

SeenNothing == [config |-> "unset", token |-> "unset", admissions |-> "unset",
                lookup_failed |-> FALSE]
LookupFailureKinds == {"transport", "status", "parse", "empty", "novalue"}

HandlerInit ==
    /\ CALGARY_TZ \in TzKinds
    /\ pc = "config"
    /\ calls = <<>>
    /\ window = <<>>
    /\ admissions = <<>>
    /\ idx = 1
    /\ medical_rows = <<>>
    /\ social_rows = <<>>
    /\ response = NoResponse
    /\ seen = SeenNothing

Init == HandlerInit /\ arg = None /\ result = None

\* lines 118-124: reading the four settings
config_step(env) ==
    IF \E i \in 1..Len(Settings) : Settings[i] \notin env
    THEN [next |-> "done",
          response |-> TextResponse(<<"Missing environment variable:", " ", "'",
                                      FirstMissing(env), "'">>, HTTP_ERROR)]
    ELSE [next |-> "auth", response |-> NoResponse]

\* the bug of going on without a token
token_step_unchecked(out) ==
    IF out.raised THEN [next |-> "done", response |-> Raised]
    ELSE [next |-> "query", response |-> NoResponse]

\* lines 131-137: after acquire_token_for_client
token_step(out) ==
    IF out.raised THEN [next |-> "done", response |-> Raised]
    ELSE IF "access_token" \notin DOMAIN out.result
    THEN [next |-> "done",
          response |-> TextResponse(<<"Auth error:", " ">>
                          \o PyStr(DictGetDefault(out.result, "error_description",
                                                  Str(<<"Failed to acquire token">>))),
                          HTTP_ERROR)]
    ELSE [next |-> "query", response |-> NoResponse]

\* the bug of not looking at the status
query_step_any_status(resp) ==
    IF resp.exc
    THEN [next |-> "done", admissions |-> <<>>,
          response |-> TextResponse(<<"Dataverse query error:", " ", "ConnectionError">>,
                                    HTTP_ERROR)]
    ELSE IF ~resp.parses
    THEN [next |-> "done", admissions |-> <<>>,
          response |-> TextResponse(<<"Failed to parse admissions JSON.">>, HTTP_ERROR)]
    ELSE [next |-> "records", admissions |-> DictGetDefault(resp.body, "value", <<>>),
          response |-> NoResponse]

\* lines 183-194: after requests.get on the admissions collection
query_step(resp) ==
    IF resp.exc
    THEN [next |-> "done", admissions |-> <<>>,
          response |-> TextResponse(<<"Dataverse query error:", " ", "ConnectionError">>,
                                    HTTP_ERROR)]
    ELSE IF resp.status_code # HTTP_OK
    THEN [next |-> "done", admissions |-> <<>>,
          response |-> TextResponse(<<"Dataverse query failed:", " ">> \o resp.text, HTTP_ERROR)]
    ELSE IF ~resp.parses
    THEN [next |-> "done", admissions |-> <<>>,
          response |-> TextResponse(<<"Failed to parse admissions JSON.">>, HTTP_ERROR)]
    ELSE [next |-> "records", admissions |-> DictGetDefault(resp.body, "value", <<>>),
          response |-> NoResponse]

\* lines 272-278: the JSON envelope
final_response(med_rows, soc_rows) ==
    JsonResponse(("medical_report" :> Report(med_rows)) @@ ("social_report" :> Report(soc_rows)))

LoadConfig ==
    /\ pc = "config"
    /\ \E env \in SUBSET {Settings[i] : i \in 1..Len(Settings)} :
          LET step == config_step(env)
          IN /\ pc' = step.next
             /\ response' = step.response
             /\ seen' = [seen EXCEPT !.config =
                            IF \A i \in 1..Len(Settings) : Settings[i] \in env
                            THEN "ok" ELSE "missing"]
    /\ UNCHANGED <<CALGARY_TZ, calls, window, admissions, idx, medical_rows, social_rows, fvars>>

AcquireToken ==
    /\ pc = "auth"
    /\ calls' = Append(calls, "token")
    /\ \E out \in TokenOutcomes :
          LET step == token_step(out)
          IN /\ pc' = step.next
             /\ response' = step.response
             /\ seen' = [seen EXCEPT !.token = out.kind]
    /\ UNCHANGED <<CALGARY_TZ, window, admissions, idx, medical_rows, social_rows, fvars>>

\* lines 147-194: the time window, then the admissions query
QueryAdmissions ==
    /\ pc = "query"
    /\ \E now \in ClockSamples : window' = last_month_bounds_utc(now)
    /\ calls' = Append(calls, "admissions")
    /\ \E resp \in AdmissionsReplies :
          LET step == query_step(resp)
          IN /\ pc' = step.next
             /\ response' = step.response
             /\ admissions' = step.admissions
             /\ seen' = [seen EXCEPT !.admissions = resp.kind]
    /\ UNCHANGED <<CALGARY_TZ, idx, medical_rows, social_rows, fvars>>

\* lines 218-224: a record of neither bucket is skipped
SkipRecord ==
    /\ pc = "records" /\ idx <= Len(admissions)
    /\ ~(is_med(admissions[idx]) \/ is_soc(admissions[idx]))
    /\ idx' = idx + 1
    /\ UNCHANGED <<CALGARY_TZ, pc, calls, window, admissions, medical_rows, social_rows,
                   response, seen, fvars>>

\* lines 218-263: a qualifying record: the lookup, the row, the buckets
RenderRecord ==
    /\ pc = "records" /\ idx <= Len(admissions)
    /\ LET rec == admissions[idx]
           opioid_lookup_id == DictGet(rec, "_cp_opioidagonisttherapy_value")
       IN /\ is_med(rec) \/ is_soc(rec)
          /\ \E reply \in SubstanceReplies :
                LET got == fetch_substance_name(opioid_lookup_id, reply)
                    line == Line(rec, got.value, CALGARY_TZ)
                IN /\ calls' = IF got.requested THEN Append(calls, "lookup") ELSE calls
                   /\ seen' = [seen EXCEPT !.lookup_failed =
                                  @ \/ (got.requested /\ reply.kind \in LookupFailureKinds)]
                   /\ IF got.raised
                      THEN /\ pc' = "done"
                           /\ response' = Raised
                           /\ UNCHANGED <<idx, medical_rows, social_rows>>
                      ELSE /\ medical_rows' =
                                 IF is_med(rec) THEN Append(medical_rows, line) ELSE medical_rows
                           /\ social_rows' =
                                 IF is_soc(rec) THEN Append(social_rows, line) ELSE social_rows
                           /\ idx' = idx + 1
                           /\ UNCHANGED <<pc, response>>
    /\ UNCHANGED <<CALGARY_TZ, window, admissions, fvars>>

\* lines 265-278: the two reports and the response
Respond ==
    /\ pc = "records" /\ idx > Len(admissions)
    /\ pc' = "done"
    /\ response' = final_response(medical_rows, social_rows)
    /\ UNCHANGED <<CALGARY_TZ, calls, window, admissions, idx, medical_rows, social_rows,
                   seen, fvars>>

Next ==
    \/ LoadConfig
    \/ AcquireToken
    \/ QueryAdmissions
    \/ SkipRecord
    \/ RenderRecord
    \/ Respond

Spec == Init /\ [][Next]_vars

(***************************************************************************)
(* Claims about one invocation (Spec)                                      *)
(***************************************************************************)
\* what a record is, read from its fields alone
DetoxIs(rec, code) ==
    "cp_detoxtype" \in DOMAIN rec /\ rec["cp_detoxtype"].t = "int" /\ rec["cp_detoxtype"].n = code
MedicalDischargePresent(rec) ==
    "cp_medicaldischargedate" \in DOMAIN rec /\ rec["cp_medicaldischargedate"] # None
ExpectMedical(rec) ==
    DetoxIs(rec, MEDICAL) \/ (DetoxIs(rec, MEDICAL_OR_SOCIAL) /\ MedicalDischargePresent(rec))
ExpectSocial(rec) == DetoxIs(rec, MEDICAL_OR_SOCIAL) /\ ~MedicalDischargePresent(rec)
PseudoName(rec) == rec["cp_pseudoname"].s

\* reading a report back: its lines, its data rows, the cells of a row
ReportLines(report) == Split(report, "\n")
DataRows(report) ==
    LET lines == ReportLines(report)
    IN [i \in 1..(Len(lines) - 2) |-> Tail(lines[i + 1])]
CellsOf(row) == Split(row, "\t")
\* the header, then rows that each end in a newline and one space
WellFormed(report) ==
    LET lines == ReportLines(report)
    IN /\ Len(lines) >= 2
       /\ lines[1] = header
       /\ lines[Len(lines)] = <<" ">>
       /\ \A i \in 2..(Len(lines) - 1) :
             /\ Len(lines[i]) >= 2
             /\ lines[i][1] = " "
             /\ lines[i][2] # " "
NamesIn(report) == LET rows == DataRows(report) IN [i \in 1..Len(rows) |-> CellsOf(rows[i])[3]]
RECURSIVE NamesWhere(_, _)
NamesWhere(recs, medical) ==
    IF recs = <<>> THEN <<>>
    ELSE (IF (medical /\ ExpectMedical(Head(recs))) \/ (~medical /\ ExpectSocial(Head(recs)))
          THEN <<PseudoName(Head(recs))>> ELSE <<>>) \o NamesWhere(Tail(recs), medical)
Count(seq, x) == Cardinality({i \in 1..Len(seq) : seq[i] = x})
HeaderOnly == header \o <<"\n", " ">>

Succeeded == pc = "done" /\ response.kind = "http" /\ response.status_code = HTTP_OK
MedicalReport == response.json["medical_report"]
SocialReport == response.json["social_report"]

\* C1: in the reports of a successful response, a record with detoxType 121570000
\* has a row in the medical report and none in the social report, whatever its
\* medicalDischargeDate; one with 121570001 and a medicalDischargeDate is medical
\* only; one with 121570001 and no medicalDischargeDate is social only; any other or
\* missing detoxType has no row; so no record is in both reports.
C1_Buckets ==
    Succeeded =>
        \A i \in 1..Len(admissions) :
            LET rec == admissions[i]
                inMedical == \E j \in 1..Len(NamesIn(MedicalReport)) :
                                NamesIn(MedicalReport)[j] = PseudoName(rec)
                inSocial == \E j \in 1..Len(NamesIn(SocialReport)) :
                               NamesIn(SocialReport)[j] = PseudoName(rec)
            IN /\ DetoxIs(rec, MEDICAL) => inMedical /\ ~inSocial
               /\ (DetoxIs(rec, MEDICAL_OR_SOCIAL) /\ MedicalDischargePresent(rec))
                     => inMedical /\ ~inSocial
               /\ (DetoxIs(rec, MEDICAL_OR_SOCIAL) /\ ~MedicalDischargePresent(rec))
                     => inSocial /\ ~inMedical
               /\ (~DetoxIs(rec, MEDICAL) /\ ~DetoxIs(rec, MEDICAL_OR_SOCIAL))
                     => ~inMedical /\ ~inSocial
               /\ ~(inMedical /\ inSocial)
\* reached: a response over a MEDICAL_OR_SOCIAL record with a medical discharge date
\* and one without, a row in each report
C1_Witness ==
    /\ Succeeded
    /\ Len(admissions) = 2
    /\ DetoxIs(admissions[1], MEDICAL_OR_SOCIAL) /\ MedicalDischargePresent(admissions[1])
    /\ DetoxIs(admissions[2], MEDICAL_OR_SOCIAL) /\ ~MedicalDischargePresent(admissions[2])
    /\ NamesIn(MedicalReport) = <<PseudoName(admissions[1])>>
    /\ NamesIn(SocialReport) = <<PseudoName(admissions[2])>>

\* C2 as stated: once a substance lookup has failed, in whichever way (transport
\* exception, non-200 status, unparseable body, empty result list), the invocation
\* is not aborted: no exception leaves the handler, and it ends with the status-200
\* JSON response holding both reports.
C2_LookupFailureNeverAborts ==
    seen.lookup_failed =>
        /\ response.kind # "raised"
        /\ pc = "done" =>
              /\ response.status_code = HTTP_OK
              /\ DOMAIN response.json = {"medical_report", "social_report"}

\* C3: a missing setting, a refused token request or one answered without a token, a
\* transport exception on the admissions query, a non-200 admissions response or an
\* unparseable admissions body each end the invocation with a plain-text response of
\* status 500 and no report; the status-200 JSON response with the two reports is
\* returned only when none of them occurred.
C3_FatalFailures ==
    /\ (\/ seen.config = "missing"
        \/ seen.token \in {"refused", "notoken"}
        \/ seen.admissions \in {"transport", "status", "parse"})
          => /\ pc = "done"
             /\ response.kind = "http"
             /\ response.status_code = HTTP_ERROR
             /\ response.mimetype = "text/plain"
             /\ response.text # <<>>
             /\ DOMAIN response.json = {}
    /\ (response.kind = "http" /\ response.status_code = HTTP_OK)
          => /\ seen.config = "ok" /\ seen.token = "ok" /\ seen.admissions = "ok"
             /\ response.mimetype = "application/json"
             /\ DOMAIN response.json = {"medical_report", "social_report"}
             /\ WellFormed(MedicalReport) /\ WellFormed(SocialReport)
\* reached: an unparseable admissions body answered with status 500
C3_Witness ==
    /\ pc = "done"
    /\ seen.admissions = "parse"
    /\ response.status_code = HTTP_ERROR
    /\ calls = <<"token", "admissions">>

\* C4: the outbound steps of an invocation come in the order configuration check,
\* token request, admissions query, substance lookups, response: a request is sent
\* only while no response exists and after the settings were all found, the
\* admissions query only after a token was obtained, a lookup only after the
\* admissions query answered 200 with parseable JSON, and a response ends it.
C4_Order ==
    [][ /\ \/ calls' = calls
           \/ \E c \in {"token", "admissions", "lookup"} : calls' = Append(calls, c)
        /\ \A i \in 1..Len(calls') :
              calls'[i] = (IF i = 1 THEN "token" ELSE IF i = 2 THEN "admissions" ELSE "lookup")
        /\ calls' # calls =>
              /\ response = NoResponse
              /\ seen.config = "ok"
              /\ calls'[Len(calls')] = "admissions" => seen.token = "ok"
              /\ calls'[Len(calls')] = "lookup" => seen.admissions = "ok"
        /\ response' # NoResponse => pc' = "done"
        /\ response # NoResponse => UNCHANGED vars
      ]_vars
\* reached: a response after the token request, the admissions query and two lookups
C4_Witness ==
    /\ Succeeded
    /\ calls = <<"token", "admissions", "lookup", "lookup">>

\* the opioid-therapy reference of a record is absent or empty
RefAbsentOrEmpty(rec) ==
    \/ "_cp_opioidagonisttherapy_value" \notin DOMAIN rec
    \/ rec["_cp_opioidagonisttherapy_value"] \in {None, EmptyStr}
\* it is text that is not used up by the surrounding whitespace and braces
RefHasContent(rec) ==
    /\ ~RefAbsentOrEmpty(rec)
    /\ Strip(StripChars(Strip(rec["_cp_opioidagonisttherapy_value"].s), {"{", "}"})) # <<>>
Qualifying(recs, withRef(_)) ==
    {i \in 1..Len(recs) : (ExpectMedical(recs[i]) \/ ExpectSocial(recs[i])) /\ withRef(recs[i])}
RefNonEmpty(rec) == ~RefAbsentOrEmpty(rec)

\* C5 as stated: a successful invocation sends exactly one token request, one
\* admissions query and N substance lookups, N the number of qualifying records
\* whose opioid-therapy reference is non-empty.
C5_AsStated ==
    Succeeded =>
        /\ Count(calls, "token") = 1
        /\ Count(calls, "admissions") = 1
        /\ Count(calls, "lookup") = Cardinality(Qualifying(admissions, RefNonEmpty))

\* C5 amended: a successful invocation sends exactly one token request, one
\* admissions query and N substance lookups, N the number of qualifying records
\* whose opioid-therapy reference is still non-empty once sanitize_guid has stripped
\* its surrounding whitespace and braces; a record of neither bucket and a record
\* whose reference is absent, empty or only whitespace and braces send no lookup.
C5_RequestCounts ==
    Succeeded =>
        /\ Count(calls, "token") = 1
        /\ Count(calls, "admissions") = 1
        /\ Count(calls, "lookup") = Cardinality(Qualifying(admissions, RefHasContent))
        /\ Len(calls) = 2 + Cardinality(Qualifying(admissions, RefHasContent))
\* reached: a success over a qualifying record whose reference is braces and blanks
\* (no lookup) and one whose reference is a GUID (one lookup)
C5_Witness ==
    /\ Succeeded
    /\ Len(admissions) = 2
    /\ ExpectMedical(admissions[1]) /\ ~RefAbsentOrEmpty(admissions[1])
    /\ ~RefHasContent(admissions[1])
    /\ ExpectMedical(admissions[2]) /\ RefHasContent(admissions[2])
    /\ calls = <<"token", "admissions", "lookup">>

\* C7: when the admissions query succeeded and no record qualifies, the invocation
\* ends with status 200 and both reports are the 18-column header and its
\* terminator, without data rows; and in any successful response a bucket that
\* received no record is header-only, whatever the other bucket holds.
C7_HeaderOnly ==
    LET noMedical == \A i \in 1..Len(admissions) : ~ExpectMedical(admissions[i])
        noSocial == \A i \in 1..Len(admissions) : ~ExpectSocial(admissions[i])
    IN /\ Len(CellsOf(header)) = Columns
       /\ (pc = "done" /\ seen.admissions = "ok" /\ noMedical /\ noSocial)
             => /\ Succeeded
                /\ MedicalReport = HeaderOnly /\ SocialReport = HeaderOnly
       /\ Succeeded =>
             /\ noMedical => MedicalReport = HeaderOnly /\ DataRows(MedicalReport) = <<>>
             /\ noSocial => SocialReport = HeaderOnly /\ DataRows(SocialReport) = <<>>
\* reached: a success over two records of neither bucket
C7_Witness ==
    /\ Succeeded
    /\ Len(admissions) = 2
    /\ \A i \in 1..2 : ~ExpectMedical(admissions[i]) /\ ~ExpectSocial(admissions[i])
    /\ MedicalReport = HeaderOnly /\ SocialReport = HeaderOnly

NotApplied == [applied |-> FALSE]
HelperInit == HandlerInit /\ result = NotApplied

\* ---- last_month_bounds_utc over the instants of a range of years ----
MinYear == 2023
MaxYear == 2025
ClockTimes ==
    { [hour |-> 0, minute |-> 0, second |-> 0, microsecond |-> 0],
      [hour |-> 12, minute |-> 30, second |-> 15, microsecond |-> 250000],
      [hour |-> 23, minute |-> 59, second |-> 59, microsecond |-> 999999] }
Instants ==
    { [year |-> y, month |-> m, day |-> d, hour |-> c.hour, minute |-> c.minute,
       second |-> c.second, microsecond |-> c.microsecond] :
         y \in MinYear..MaxYear, m \in 1..12, d \in 1..31, c \in ClockTimes }
InitBounds == HelperInit /\ arg \in {i \in Instants : i.day <= DaysInMonth(i.year, i.month)}
ApplyBounds ==
    /\ ~result.applied
    /\ result' = [applied |-> TRUE, bounds |-> last_month_bounds_utc(arg)]
    /\ UNCHANGED <<hvars, arg>>
SpecBounds == InitBounds /\ [][ApplyBounds]_vars

\* the text YYYY-MM-DDTHH:MM:SSZ of a valid date and time
IsZStamp(s) == Len(s) = 20 /\ DateOk(s) /\ s[11] = "T" /\ TimeOk(s) /\ s[20] = "Z"
\* the instant such a text names
ZStamp(s) == fromisoformat(SubSeq(s, 1, 19)).dt

ValueSamples ==
    {None, EmptyStr, Str(<<"raw">>), Str(<<" ">>), Num(0), Num(7), Bool(FALSE), Bool(TRUE)}
AnnotationSamples == {None, EmptyStr, Str(<<"Shown">>), Num(0), Bool(FALSE)}
\* dicts holding any of: the field, its annotation, another field
DictSamples ==
    { raw @@ fmt @@ other :
        raw \in {EmptyDict} \cup {"cp_gender" :> v : v \in ValueSamples},
        fmt \in {EmptyDict} \cup {FmtKey("cp_gender") :> v : v \in AnnotationSamples},
        other \in {EmptyDict, "cp_age" :> Num(42),
                   ("cp_age" :> Num(42)) @@ (FmtKey("cp_age") :> Str(<<"42 years">>))} }
FieldSamples == {"cp_gender", "cp_age", "cp_mrpnumber"}
InitValue == HelperInit /\ arg \in [obj : DictSamples, field : FieldSamples]
ApplyValue ==
    /\ ~result.applied
    /\ result' = [applied |-> TRUE, value |-> get_value(arg.obj, arg.field)]
    /\ UNCHANGED <<hvars, arg>>
SpecValue == InitValue /\ [][ApplyValue]_vars

\* the annotation of the field exists and is neither null nor empty
HasAnnotation(obj, field) ==
    FmtKey(field) \in DOMAIN obj /\ obj[FmtKey(field)] # None /\ obj[FmtKey(field)] # EmptyStr

\* C9 as stated: get_value returns the annotation when it exists and is neither null
\* nor empty, otherwise the raw value, and the empty string when there is no usable
\* raw value: obj empty, the field missing, or the field present with a null value.
C9_AsStated ==
    result.applied =>
        result.value =
            IF HasAnnotation(arg.obj, arg.field) THEN arg.obj[FmtKey(arg.field)]
            ELSE IF arg.field \in DOMAIN arg.obj /\ arg.obj[arg.field] # None
            THEN arg.obj[arg.field]
            ELSE EmptyStr

\* C9 amended: get_value returns the annotation when it exists and is neither null
\* nor empty; otherwise the raw value of the field whenever the key is present, a
\* null raw value included (the result is then null, not ""); and the empty string
\* when obj is empty or the key is missing.
C9_GetValue ==
    result.applied =>
        result.value =
            IF HasAnnotation(arg.obj, arg.field) THEN arg.obj[FmtKey(arg.field)]
            ELSE IF arg.field \in DOMAIN arg.obj THEN arg.obj[arg.field]
            ELSE EmptyStr
\* reached: a null raw value under an unusable annotation comes back as null
C9_Witness ==
    /\ result.applied
    /\ arg.field \in DOMAIN arg.obj /\ arg.obj[arg.field] = None
    /\ FmtKey(arg.field) \in DOMAIN arg.obj /\ arg.obj[FmtKey(arg.field)] = EmptyStr
    /\ result.value = None
\* ---- one row: the lookup, the 18 values and their cells ----
Without(d, keys) == [k \in DOMAIN d \ keys |-> d[k]]
\* obj with the field and its annotation replaced by the fragments raw and fmt
WithField(obj, field, raw, fmt) == raw @@ fmt @@ Without(obj, {field, FmtKey(field)})
WithContact(rec, contact) == ("cp_Client" :> contact) @@ Without(rec, {"cp_Client"})

RecFields ==
    {"cp_pseudoname", "cp_primarysubstanceused", "cp_othersubstances", "cp_incomesource",
     "cp_reasonfordischargemdrate", "cp_reasonforhospitaladmissionmdrate",
     "cp_contributingfactors", "cp_postdischargereferral"}
ContactFields ==
    {"cp_ahcnumber", "cp_clientoutofprovince", "address1_postalcode", "cp_gender", "cp_age",
     "cp_mrpnumber"}
DateFields == {"cp_servicerequestdate", "cp_admissiondate", "cp_actualdischargedate"}
LabelSamples ==
    { Str(<<";", ";">>), Str(<<" ", ";", " ">>),
      Str(<<"A", ";", " ", "B", ";", " ", " ", "C", " ">>) }
DateSamples ==
    { None, EmptyStr, Str(<<" ", " ">>), Str(<<"s", "o", "o", "n">>), Num(0), Num(5), Bool(TRUE),
      Str(IsoWinter), Str(IsoSummer), Str(IsoDstStart), Str(IsoNaive), Str(IsoOffset),
      Str(IsoDateOnly), Str(<<" ">> \o IsoSummer \o <<"\n">>) }
RawFragments(field) == {EmptyDict} \cup {field :> v : v \in ValueSamples \cup LabelSamples}
FmtFragments(field) ==
    {EmptyDict} \cup {FmtKey(field) :> v : v \in AnnotationSamples \cup LabelSamples}
RefFragments == {RefNull, RefMissing, RefEmpty, RefBlank, RefGuid, RefBraced, RefMalformed}

BaseRecord == DetoxA @@ MedNull @@ RefNull @@ Full("P00")
RecordVariants ==
    UNION { { WithField(BaseRecord, f, raw, fmt) :
                raw \in RawFragments(f), fmt \in FmtFragments(f) } : f \in RecFields }
ContactVariants ==
    UNION { { WithContact(BaseRecord, WithField(Contact(BaseRecord), f, raw, fmt)) :
                raw \in RawFragments(f), fmt \in FmtFragments(f) } : f \in ContactFields }
DateVariants ==
    UNION { { WithField(BaseRecord, f, raw, EmptyDict) :
                raw \in {EmptyDict} \cup {f :> v : v \in DateSamples} } : f \in DateFields }
RefVariants == { ref @@ Without(BaseRecord, {"_cp_opioidagonisttherapy_value"}) : ref \in RefFragments }
RowInputs ==
    [rec : RefVariants, reply : SubstanceReplies]
    \cup [rec : RecordVariants \cup ContactVariants \cup DateVariants
                \cup {Without(BaseRecord, {"cp_Client"})},
          reply : {r \in SubstanceReplies : r.kind = "found"}]

InitRow == HelperInit /\ arg \in RowInputs
ApplyRow ==
    /\ ~result.applied
    /\ LET got == fetch_substance_name(DictGet(arg.rec, "_cp_opioidagonisttherapy_value"),
                                       arg.reply)
       IN result' = [applied |-> TRUE, raised |-> got.raised,
                     vals |-> IF got.raised THEN <<>>
                              ELSE RowValues(arg.rec, got.value, CALGARY_TZ),
                     cells |-> IF got.raised THEN <<>>
                               ELSE RowCells(arg.rec, got.value, CALGARY_TZ)]
    /\ UNCHANGED <<hvars, arg>>
SpecRow == InitRow /\ [][ApplyRow]_vars

\* C10: no cell of a rendered row is empty: the row has 18 cells, a value that is
\* null or "" after field selection, normalization, conversion or lookup is rendered
\* "NA", a boolean "Yes"/"No", a number (0 included) as its decimal string.
C10_NoEmptyCell ==
    (result.applied /\ ~result.raised) =>
        /\ Len(result.cells) = Columns /\ Len(result.vals) = Columns
        /\ \A i \in 1..Columns :
              LET v == result.vals[i]
                  cell == result.cells[i]
              IN /\ cell # <<>>
                 /\ (v = None \/ v = EmptyStr) => cell = <<"NA">>
                 /\ v.t = "bool" => cell = (IF v.b THEN <<"Yes">> ELSE <<"No">>)
                 /\ v.t = "int" => cell = Decimal(v.n) /\ (v.n = 0 => cell = <<"0">>)
\* reached: a multi-select annotation of separators only normalizes to "" and is
\* rendered "NA"
C10_Witness ==
    /\ result.applied /\ ~result.raised
    /\ FmtKey("cp_contributingfactors") \in DOMAIN arg.rec
    /\ arg.rec[FmtKey("cp_contributingfactors")] = Str(<<";", ";">>)
    /\ result.vals[12] = EmptyStr
    /\ result.cells[12] = <<"NA">>

====
